---------------------------- MODULE Spec2Model ----------------------------
(***************************************************************************)
(* A model of ringbuffer-c (src/ringbuffer.c, src/ringbuffer.h): a fixed-  *)
(* capacity circular byte buffer with length-prefixed blocks and frames.   *)
(*                                                                         *)
(* The state is the ringbuffer_t structure together with the memory it     *)
(* borrows.  Every C function is an operator that maps the structure and   *)
(* the call's arguments to a record                                        *)
(*     [rb |-> the structure after the call, ret |-> the int returned,     *)
(*      out |-> the bytes copied to the caller's buffer(s)]                *)
(* and has one action that applies it with arguments drawn from small      *)
(* sets.  size_t arithmetic is modular.  The machine is scaled down: a     *)
(* byte has ByteBase values and a size_t has WordBytes bytes, so that      *)
(* size_t ranges over 0 .. ByteBase^WordBytes - 1 and a length prefix is   *)
(* the WordBytes bytes of the object representation of a size_t.           *)
(***************************************************************************)
EXTENDS Integers, Sequences, FiniteSets, TLC

\* uint8_t: the number of values of a byte (scaled down from 256).
ByteBase == 4

\* sizeof(size_t): the number of bytes of a size_t (scaled down from 8).
WordBytes == 2

\* Number of bytes of the memory region the caller owns and hands to init.
MemSize == 4

\* Longest byte string of which every value is tried as data.
MaxData == 2

Bytes == 0 .. (ByteBase - 1)

\* The byte values the calls pass as data, and that the memory holds before
\* init: two of them keep the machine small, and the bytes of a length
\* prefix add the others.
DataBytes == {0, 1}

RECURSIVE Pow(_, _)
Pow(b, e) == IF e = 0 THEN 1 ELSE b * Pow(b, e - 1)

\* SIZE_MAX + 1
SizeMod == Pow(ByteBase, WordBytes)

\* All values of type size_t.
SizeT == 0 .. (SizeMod - 1)

\* Conversion of an integer to size_t (also int -> size_t, so -1 is SIZE_MAX).
ToSizeT(x) == (x + SizeMod) % SizeMod

\* size_t addition and subtraction.
Add(a, b) == (a + b) % SizeMod
Sub(a, b) == (a - b + SizeMod) % SizeMod

Min(a, b) == IF a < b THEN a ELSE b
Max(a, b) == IF a > b THEN a ELSE b

\* The null pointer: differs from every byte array.
NULL == << -1 >>

\* A valid destination buffer whose contents before the call do not matter.
DST == << >>

\* memcpy(buffer + at, src + from, n): buffer is indexed from 0, src from 1.
MemcpyTo(buf, at, src, from, n) ==
    [i \in DOMAIN buf |->
        IF i >= at /\ i < at + n THEN src[from + (i - at) + 1] ELSE buf[i]]

\* memcpy(dst, buffer + at, n): the n bytes that arrive in dst.
MemcpyFrom(buf, at, n) == [k \in 1 .. n |-> buf[at + k - 1]]

\* (uint8_t*)&len: the object representation of a size_t, least
\* significant byte first.
RECURSIVE SizeBytes(_, _)
SizeBytes(v, n) ==
    IF n = 0 THEN << >>
    ELSE << v % ByteBase >> \o SizeBytes(v \div ByteBase, n - 1)

\* The size_t whose object representation is the byte string s.
RECURSIVE SizeValue(_)
SizeValue(s) ==
    IF s = << >> THEN 0 ELSE Head(s) + ByteBase * SizeValue(Tail(s))

\* The size_t held by a size_t variable initialised to 0 of which the first
\* Len(s) bytes were overwritten by s.
SizeVar(s) == SizeValue(s \o [k \in 1 .. (WordBytes - Len(s)) |-> 0])

VARIABLES buffer, size, len, iw, ir

vars == << buffer, size, len, iw, ir >>

\* The ringbuffer_t structure (with the memory buffer points to).
RB == [buffer |-> buffer, size |-> size, len |-> len, iw |-> iw, ir |-> ir]

Result(rb, ret, out) == [rb |-> rb, ret |-> ret, out |-> out]

(***************************************************************************)
(* Core ring                                                               *)
(***************************************************************************)

ringbuffer_clear(rb) ==
    Result([rb EXCEPT !.len = 0, !.iw = 0, !.ir = 0], rb.size, << >>)

ringbuffer_init(rb, mem, memlen) ==
    IF mem = NULL THEN Result(rb, -1, << >>)
    ELSE ringbuffer_clear([rb EXCEPT !.buffer = mem, !.size = memlen])

ringbuffer_get_length(rb) == rb.len

ringbuffer_get_space(rb) == Sub(rb.size, rb.len)

\* Fault: write that takes the whole size as free space, so that it
\* overwrites unread bytes.
ringbuffer_write_overwriting(rb, data, n) ==
    IF data = NULL THEN Result(rb, -1, << >>)
    ELSE LET l == IF n > rb.size THEN rb.size ELSE n
             linlen == Sub(rb.size, rb.iw)
             newlen == Min(rb.len + l, rb.size)
         IN  IF l <= linlen
             THEN Result(
                    [rb EXCEPT
                        !.buffer = MemcpyTo(rb.buffer, rb.iw, data, 0, l),
                        !.iw = IF l = linlen THEN 0 ELSE Add(rb.iw, l),
                        !.len = newlen],
                    l, << >>)
             ELSE LET iw1 == Sub(l, linlen)
                  IN  Result(
                        [rb EXCEPT
                            !.buffer = MemcpyTo(
                                MemcpyTo(rb.buffer, rb.iw, data, 0, linlen),
                                0, data, linlen, iw1),
                            !.iw = iw1,
                            !.len = newlen],
                        l, << >>)

\* Fault: the second copy of a wrapping write reads data from its start
\* again (data instead of data + linlen).
ringbuffer_write_src_unadvanced(rb, data, n) ==
    IF data = NULL THEN Result(rb, -1, << >>)
    ELSE LET space == Sub(rb.size, rb.len)
             l == IF n > space THEN space ELSE n
             linlen == Sub(rb.size, rb.iw)
         IN  IF l <= linlen
             THEN Result(
                    [rb EXCEPT
                        !.buffer = MemcpyTo(rb.buffer, rb.iw, data, 0, l),
                        !.iw = IF l = linlen THEN 0 ELSE Add(rb.iw, l),
                        !.len = Add(rb.len, l)],
                    l, << >>)
             ELSE LET iw1 == Sub(l, linlen)
                  IN  Result(
                        [rb EXCEPT
                            !.buffer = MemcpyTo(
                                MemcpyTo(rb.buffer, rb.iw, data, 0, linlen),
                                0, data, 0, iw1),
                            !.iw = iw1,
                            !.len = Add(rb.len, l)],
                        l, << >>)

\* Fault: write without the truncation to the free space.
ringbuffer_write_untruncated(rb, data, n) ==
    IF data = NULL THEN Result(rb, -1, << >>)
    ELSE LET linlen == Sub(rb.size, rb.iw)
         IN  IF n <= linlen
             THEN Result(
                    [rb EXCEPT
                        !.buffer = MemcpyTo(rb.buffer, rb.iw, data, 0, n),
                        !.iw = IF n = linlen THEN 0 ELSE Add(rb.iw, n),
                        !.len = Add(rb.len, n)],
                    n, << >>)
             ELSE LET iw1 == Sub(n, linlen)
                  IN  Result(
                        [rb EXCEPT
                            !.buffer = MemcpyTo(
                                MemcpyTo(rb.buffer, rb.iw, data, 0, linlen),
                                0, data, linlen, iw1),
                            !.iw = iw1,
                            !.len = Add(rb.len, n)],
                        n, << >>)

ringbuffer_write(rb, data, n) ==
    IF data = NULL THEN Result(rb, -1, << >>)
    ELSE LET space == Sub(rb.size, rb.len)
             l == IF n > space THEN space ELSE n
             linlen == Sub(rb.size, rb.iw)
         IN  IF l <= linlen
             THEN Result(
                    [rb EXCEPT
                        !.buffer = MemcpyTo(rb.buffer, rb.iw, data, 0, l),
                        !.iw = IF l = linlen THEN 0 ELSE Add(rb.iw, l),
                        !.len = Add(rb.len, l)],
                    l, << >>)
             ELSE LET iw1 == Sub(l, linlen)
                  IN  Result(
                        [rb EXCEPT
                            !.buffer = MemcpyTo(
                                MemcpyTo(rb.buffer, rb.iw, data, 0, linlen),
                                0, data, linlen, iw1),
                            !.iw = iw1,
                            !.len = Add(rb.len, l)],
                        l, << >>)

\* Fault: write_all that truncates as write does.
ringbuffer_write_all_truncating(rb, data, n) == ringbuffer_write(rb, data, n)

ringbuffer_write_all(rb, data, n) ==
    IF data = NULL THEN Result(rb, -1, << >>)
    ELSE IF n > Sub(rb.size, rb.len) THEN Result(rb, -1, << >>)
    ELSE LET linlen == Sub(rb.size, rb.iw)
         IN  IF n <= linlen
             THEN Result(
                    [rb EXCEPT
                        !.buffer = MemcpyTo(rb.buffer, rb.iw, data, 0, n),
                        !.iw = IF n = linlen THEN 0 ELSE Add(rb.iw, n),
                        !.len = Add(rb.len, n)],
                    n, << >>)
             ELSE LET iw1 == Sub(n, linlen)
                  IN  Result(
                        [rb EXCEPT
                            !.buffer = MemcpyTo(
                                MemcpyTo(rb.buffer, rb.iw, data, 0, linlen),
                                0, data, linlen, iw1),
                            !.iw = iw1,
                            !.len = Add(rb.len, n)],
                        n, << >>)

\* Fault: the second copy of a wrapping read goes to the start of the
\* destination again (data instead of data + linlen).
ringbuffer_read_dst_unadvanced(rb, data, n) ==
    IF data = NULL THEN Result(rb, -1, << >>)
    ELSE LET l == IF n > rb.len THEN rb.len ELSE n
             linlen == Sub(rb.size, rb.ir)
         IN  IF l <= linlen
             THEN Result(
                    [rb EXCEPT
                        !.ir = IF l = linlen THEN 0 ELSE Add(rb.ir, l),
                        !.len = Sub(rb.len, l)],
                    l, MemcpyFrom(rb.buffer, rb.ir, l))
             ELSE LET ir1 == Sub(l, linlen)
                      a == MemcpyFrom(rb.buffer, rb.ir, linlen)
                      b == MemcpyFrom(rb.buffer, 0, ir1)
                  IN  Result(
                        [rb EXCEPT !.ir = ir1, !.len = Sub(rb.len, l)],
                        l,
                        [k \in 1 .. Max(Len(a), Len(b)) |->
                            IF k <= Len(b) THEN b[k] ELSE a[k]])

ringbuffer_read(rb, data, n) ==
    IF data = NULL THEN Result(rb, -1, << >>)
    ELSE LET l == IF n > rb.len THEN rb.len ELSE n
             linlen == Sub(rb.size, rb.ir)
         IN  IF l <= linlen
             THEN Result(
                    [rb EXCEPT
                        !.ir = IF l = linlen THEN 0 ELSE Add(rb.ir, l),
                        !.len = Sub(rb.len, l)],
                    l, MemcpyFrom(rb.buffer, rb.ir, l))
             ELSE LET ir1 == Sub(l, linlen)
                  IN  Result(
                        [rb EXCEPT !.ir = ir1, !.len = Sub(rb.len, l)],
                        l,
                        MemcpyFrom(rb.buffer, rb.ir, linlen)
                            \o MemcpyFrom(rb.buffer, 0, ir1))

ringbuffer_peek(rb, data, n) ==
    IF data = NULL THEN Result(rb, -1, << >>)
    ELSE LET l == IF n > rb.len THEN rb.len ELSE n
             linlen == Sub(rb.size, rb.ir)
         IN  IF l <= linlen
             THEN Result(rb, l, MemcpyFrom(rb.buffer, rb.ir, l))
             ELSE Result(rb, l,
                        MemcpyFrom(rb.buffer, rb.ir, linlen)
                            \o MemcpyFrom(rb.buffer, 0, Sub(l, linlen)))

\* Fault: peek_offset that does not take the offset off the length that can
\* be read.
ringbuffer_peek_offset_full_length(rb, offset, data, n) ==
    IF data = NULL THEN Result(rb, -1, << >>)
    ELSE LET vLen == rb.len
             l == IF n > vLen THEN vLen ELSE n
             vir0 == Add(rb.ir, offset)
             vir == IF vir0 >= rb.size THEN Sub(vir0, rb.size) ELSE vir0
             linlen == Sub(rb.size, vir)
         IN  IF l <= linlen
             THEN Result(rb, l, MemcpyFrom(rb.buffer, vir, l))
             ELSE Result(rb, l,
                        MemcpyFrom(rb.buffer, vir, linlen)
                            \o MemcpyFrom(rb.buffer, 0, Sub(l, linlen)))

ringbuffer_peek_offset(rb, offset, data, n) ==
    IF data = NULL THEN Result(rb, -1, << >>)
    ELSE LET vLen == IF offset < rb.len THEN Sub(rb.len, offset) ELSE 0
             l == IF n > vLen THEN vLen ELSE n
             vir0 == Add(rb.ir, offset)
             vir == IF vir0 >= rb.size THEN Sub(vir0, rb.size) ELSE vir0
             linlen == Sub(rb.size, vir)
         IN  IF l <= linlen
             THEN Result(rb, l, MemcpyFrom(rb.buffer, vir, l))
             ELSE Result(rb, l,
                        MemcpyFrom(rb.buffer, vir, linlen)
                            \o MemcpyFrom(rb.buffer, 0, Sub(l, linlen)))

\* Fault: discard that does not limit the count to the length.
ringbuffer_discard_unclamped(rb, n) ==
    LET linlen == Sub(rb.size, rb.ir)
    IN  Result(
            [rb EXCEPT
                !.len = Sub(rb.len, n),
                !.ir = IF n < linlen THEN Add(rb.ir, n)
                       ELSE IF n = linlen THEN 0
                       ELSE Sub(n, linlen)],
            n, << >>)

\* Fault: discard that does not wrap the read index when it reaches the
\* end of the memory.
ringbuffer_discard_unwrapped(rb, n) ==
    LET l == IF n > rb.len THEN rb.len ELSE n
        linlen == Sub(rb.size, rb.ir)
    IN  Result(
            [rb EXCEPT
                !.len = Sub(rb.len, l),
                !.ir = IF l <= linlen THEN Add(rb.ir, l) ELSE Sub(l, linlen)],
            l, << >>)

ringbuffer_discard(rb, n) ==
    LET l == IF n > rb.len THEN rb.len ELSE n
        linlen == Sub(rb.size, rb.ir)
    IN  Result(
            [rb EXCEPT
                !.len = Sub(rb.len, l),
                !.ir = IF l < linlen THEN Add(rb.ir, l)
                       ELSE IF l = linlen THEN 0
                       ELSE Sub(l, linlen)],
            l, << >>)

\* The mismatch test of find: the byte at index i, where a read beyond the
\* ring's memory (i >= size) yields a byte the model does not fix (oob).
BufferAt(rb, i, oob) == IF i < rb.size THEN rb.buffer[i] ELSE oob

\* The inner loop of find: do the n - j pattern bytes from j on match the
\* ring from index i on?
RECURSIVE FindMatch(_, _, _, _, _, _)
FindMatch(rb, data, n, i, j, oob) ==
    IF j >= n THEN TRUE
    ELSE IF BufferAt(rb, i, oob) # data[j + 1] THEN FALSE
    ELSE FindMatch(rb, data, n,
                   IF Add(i, 1) >= rb.size THEN 0 ELSE Add(i, 1), j + 1, oob)

\* The outer loop of find.
RECURSIVE FindLoop(_, _, _, _, _, _)
FindLoop(rb, data, n, offset, index, oob) ==
    IF ~(offset <= Sub(rb.len, n)) THEN -1
    ELSE IF FindMatch(rb, data, n, index, 0, oob) THEN offset
    ELSE FindLoop(rb, data, n, Add(offset, 1),
                  IF Add(index, 1) >= rb.size THEN 0 ELSE Add(index, 1), oob)

ringbuffer_find(rb, offset, data, n, oob) ==
    IF data = NULL THEN Result(rb, -1, << >>)
    ELSE IF n = 0 \/ n > rb.len THEN Result(rb, -1, << >>)
    ELSE Result(rb, FindLoop(rb, data, n, offset, Add(rb.ir, offset), oob),
                << >>)

(***************************************************************************)
(* Block codec                                                             *)
(***************************************************************************)

\* Conversion of a size_t to int, for the values the functions return
\* (SIZE_MAX becomes -1).
ToInt(x) == IF x >= SizeMod \div 2 THEN x - SizeMod ELSE x

ringbuffer_write_block(rb, block, n) ==
    IF block = NULL THEN Result(rb, 0, << >>)
    ELSE LET space == Sub(rb.size, rb.len)
         IN  IF Add(n, WordBytes) > space THEN Result(rb, -1, << >>)
             ELSE LET w1 == ringbuffer_write_all(
                                rb, SizeBytes(n, WordBytes), WordBytes)
                  IN  IF w1.ret < 0 THEN Result(w1.rb, -1, << >>)
                      ELSE LET w2 == ringbuffer_write_all(w1.rb, block, n)
                           IN  IF w2.ret < 0 THEN Result(w2.rb, -2, << >>)
                               ELSE Result(w2.rb, ToInt(Add(n, WordBytes)),
                                           << >>)

\* Fault: read_block that does not discard the length prefix before it
\* reads the payload.
ringbuffer_read_block_keeps_prefix(rb, block, n) ==
    IF block = NULL THEN Result(rb, 0, << >>)
    ELSE LET p == ringbuffer_peek(rb, DST, WordBytes)
             bl == SizeVar(p.out)
         IN  IF p.ret # WordBytes THEN Result(rb, 0, << >>)
             ELSE IF Add(bl, WordBytes) > rb.len \/ n < bl
                  THEN Result(rb, 0, << >>)
             ELSE ringbuffer_read(rb, block, bl)

ringbuffer_read_block(rb, block, n) ==
    IF block = NULL THEN Result(rb, 0, << >>)
    ELSE LET p == ringbuffer_peek(rb, DST, WordBytes)
             bl == SizeVar(p.out)
         IN  IF p.ret # WordBytes THEN Result(rb, 0, << >>)
             ELSE IF Add(bl, WordBytes) > rb.len \/ n < bl
                  THEN Result(rb, 0, << >>)
             ELSE ringbuffer_read(
                    ringbuffer_discard(rb, WordBytes).rb, block, bl)

ringbuffer_peek_block_length(rb) ==
    LET p == ringbuffer_peek(rb, DST, WordBytes)
        bl == SizeVar(p.out)
    IN  IF p.ret # WordBytes THEN Result(rb, 0, << >>)
        ELSE IF Add(bl, WordBytes) > rb.len THEN Result(rb, -1, << >>)
        ELSE Result(rb, ToInt(bl), << >>)

\* peek_block that does not clamp the count to the destination's size.
ringbuffer_peek_block_unclamped(rb, block, n) ==
    IF block = NULL THEN Result(rb, 0, << >>)
    ELSE LET bl == ToSizeT(ringbuffer_peek_block_length(rb).ret)
         IN  IF bl = 0 THEN Result(rb, 0, << >>)
             ELSE ringbuffer_peek_offset(rb, WordBytes, block, bl)

ringbuffer_peek_block(rb, block, n) ==
    IF block = NULL THEN Result(rb, 0, << >>)
    ELSE LET bl == ToSizeT(ringbuffer_peek_block_length(rb).ret)
         IN  IF bl = 0 THEN Result(rb, 0, << >>)
             ELSE ringbuffer_peek_offset(
                    rb, WordBytes, block, IF n < bl THEN n ELSE bl)

ringbuffer_discard_block(rb) ==
    LET bl == ToSizeT(ringbuffer_peek_block_length(rb).ret)
    IN  IF bl = 0 THEN Result(rb, 0, << >>)
        ELSE ringbuffer_discard(rb, Add(bl, WordBytes))

\* The loop of count_blocks: n blocks counted, l bytes left, at offset.
RECURSIVE CountLoop(_, _, _, _)
CountLoop(rb, n, l, offset) ==
    IF ~(l > WordBytes) THEN n
    ELSE LET l1 == Sub(l, WordBytes)
             p == ringbuffer_peek_offset(rb, offset, DST, WordBytes)
             bl == SizeVar(p.out)
         IN  IF p.ret = WordBytes /\ bl <= l1
             THEN CountLoop(rb, Add(n, 1), Sub(l1, bl),
                            Add(offset, Add(WordBytes, bl)))
             ELSE 0

ringbuffer_count_blocks(rb) ==
    Result(rb, ToInt(CountLoop(rb, 0, rb.len, 0)), << >>)

(***************************************************************************)
(* Frame codec                                                             *)
(***************************************************************************)

\* What a frame call copied out: the header and the payload destination.
FrameOut(h, p) == [header |-> h, payload |-> p]

ringbuffer_write_frame(rb, header, hlen, data, plen) ==
    IF header = NULL \/ data = NULL THEN Result(rb, -1, << >>)
    ELSE LET n == Add(hlen, plen)
         IN  IF Add(WordBytes, n) > Sub(rb.size, rb.len)
             THEN Result(rb, -1, << >>)
             ELSE LET w1 == ringbuffer_write_all(
                                rb, SizeBytes(n, WordBytes), WordBytes)
                      w2 == ringbuffer_write_all(w1.rb, header, hlen)
                      w3 == ringbuffer_write_all(w2.rb, data, plen)
                  IN  IF w1.ret < 0 THEN Result(w1.rb, -1, << >>)
                      ELSE IF w2.ret < 0 THEN Result(w2.rb, -2, << >>)
                      ELSE IF w3.ret < 0 THEN Result(w3.rb, -2, << >>)
                      ELSE Result(w3.rb, ToInt(Add(n, WordBytes)), << >>)

\* Fault: peek_frame that peeks the payload at the offset of the header
\* (sizeof(size_t) instead of sizeof(size_t) + hlen).
ringbuffer_peek_frame_payload_at_header(rb, header, hlen, payload, max_plen) ==
    IF header = NULL \/ payload = NULL
    THEN Result(rb, -1, FrameOut(<< >>, << >>))
    ELSE LET p == ringbuffer_peek(rb, DST, WordBytes)
             n == SizeVar(p.out)
         IN  IF p.ret # WordBytes THEN Result(rb, -1, FrameOut(<< >>, << >>))
             ELSE IF Add(n, WordBytes) > rb.len
                  THEN Result(rb, -1, FrameOut(<< >>, << >>))
             ELSE IF n > Add(hlen, max_plen)
                  THEN Result(rb, -1, FrameOut(<< >>, << >>))
             ELSE LET h == ringbuffer_peek_offset(rb, WordBytes, header, hlen)
                      d == ringbuffer_peek_offset(
                               rb, WordBytes, payload, Sub(n, hlen))
                  IN  Result(rb, d.ret, FrameOut(h.out, d.out))

ringbuffer_peek_frame(rb, header, hlen, payload, max_plen) ==
    IF header = NULL \/ payload = NULL
    THEN Result(rb, -1, FrameOut(<< >>, << >>))
    ELSE LET p == ringbuffer_peek(rb, DST, WordBytes)
             n == SizeVar(p.out)
         IN  IF p.ret # WordBytes THEN Result(rb, -1, FrameOut(<< >>, << >>))
             ELSE IF Add(n, WordBytes) > rb.len
                  THEN Result(rb, -1, FrameOut(<< >>, << >>))
             ELSE IF n > Add(hlen, max_plen)
                  THEN Result(rb, -1, FrameOut(<< >>, << >>))
             ELSE LET h == ringbuffer_peek_offset(rb, WordBytes, header, hlen)
                      d == ringbuffer_peek_offset(
                               rb, Add(WordBytes, hlen), payload, Sub(n, hlen))
                  IN  Result(rb, d.ret, FrameOut(h.out, d.out))

ringbuffer_read_frame(rb, header, hlen, payload, max_plen) ==
    LET f == ringbuffer_peek_frame(rb, header, hlen, payload, max_plen)
        plen == ToSizeT(f.ret)
    IN  IF plen >= 0
        THEN Result(
                ringbuffer_discard(
                    rb, Add(Add(WordBytes, hlen), plen)).rb,
                ToInt(plen), f.out)
        ELSE Result(rb, ToInt(plen), f.out)

(***************************************************************************)
(* Arguments of the calls                                                  *)
(***************************************************************************)

\* The array the test program writes from: data[i] = i (src/test.c), from
\* element `first` on, n bytes.
TestData(first, n) == [k \in 1 .. n |-> (first + k - 1) % ByteBase]

\* Every string of at most MaxData data bytes.
ShortData == UNION {[1 .. n -> DataBytes] : n \in 0 .. MaxData}

\* Byte arrays passed as data: every short one, and for every longer length
\* a size_t can express, the start of the test program's array reduced to
\* data bytes.
DataArgs ==
    ShortData \cup
    {[k \in 1 .. n |-> TestData(0, n)[k] % 2] : n \in (MaxData + 1) .. (SizeMod - 1)}

\* Capacities passed to init.
Capacities == {0, 1, MemSize}

\* Sizes passed as a count, an offset or a buffer length: everything up to
\* beyond the capacity, and SIZE_MAX.
SizeArgs == (0 .. (MemSize + 2)) \cup {SizeMod - 1}

\* Patterns searched for.
PatternArgs == ShortData

\* Sizes passed as the length of a header, payload or block buffer:
\* everything up to beyond what fits the memory with a prefix, and SIZE_MAX.
PartArgs == (0 .. (MemSize - WordBytes + 1)) \cup {SizeMod - 1}

\* Header and payload of a frame written: every short pair, and a long array
\* on either side.
FrameArgs ==
    {hp \in DataArgs \X DataArgs :
        \/ Len(hp[1]) + Len(hp[2]) <= MaxData
        \/ Len(hp[1]) > MaxData /\ hp[2] \in {<< >>, << 1 >>}
        \/ Len(hp[2]) > MaxData /\ hp[1] \in {<< >>, << 1 >>}}

(***************************************************************************)
(* The state machine                                                       *)
(***************************************************************************)

Init ==
    /\ buffer \in [0 .. (MemSize - 1) -> DataBytes]
    /\ size \in Capacities
    /\ len = 0
    /\ iw = 0
    /\ ir = 0

\* The call returned r: the structure is as the call left it.
Returns(r) ==
    /\ buffer' = r.rb.buffer
    /\ size' = r.rb.size
    /\ len' = r.rb.len
    /\ iw' = r.rb.iw
    /\ ir' = r.rb.ir

InitCall == \E memlen \in Capacities : Returns(ringbuffer_init(RB, buffer, memlen))

ClearCall == Returns(ringbuffer_clear(RB))

WriteCall == \E data \in DataArgs : Returns(ringbuffer_write(RB, data, Len(data)))

WriteAllCall ==
    \E data \in DataArgs : Returns(ringbuffer_write_all(RB, data, Len(data)))

ReadCall == \E n \in SizeArgs : Returns(ringbuffer_read(RB, DST, n))

PeekCall == \E n \in SizeArgs : Returns(ringbuffer_peek(RB, DST, n))

PeekOffsetCall ==
    \E offset \in SizeArgs, n \in SizeArgs :
        Returns(ringbuffer_peek_offset(RB, offset, DST, n))

FindCall ==
    \E offset \in SizeArgs, data \in PatternArgs :
        \E oob \in (IF Add(ir, offset) >= size THEN Bytes ELSE {0}) :
            Returns(ringbuffer_find(RB, offset, data, Len(data), oob))

DiscardCall == \E n \in SizeArgs : Returns(ringbuffer_discard(RB, n))

WriteBlockCall ==
    \E block \in DataArgs :
        Returns(ringbuffer_write_block(RB, block, Len(block)))

ReadBlockCall == \E n \in PartArgs : Returns(ringbuffer_read_block(RB, DST, n))

PeekBlockCall == \E n \in PartArgs : Returns(ringbuffer_peek_block(RB, DST, n))

PeekBlockLengthCall == Returns(ringbuffer_peek_block_length(RB))

DiscardBlockCall == Returns(ringbuffer_discard_block(RB))

CountBlocksCall == Returns(ringbuffer_count_blocks(RB))

WriteFrameCall ==
    \E hp \in FrameArgs :
        Returns(ringbuffer_write_frame(RB, hp[1], Len(hp[1]), hp[2], Len(hp[2])))

PeekFrameCall ==
    \E hlen \in PartArgs, max_plen \in PartArgs :
        Returns(ringbuffer_peek_frame(RB, DST, hlen, DST, max_plen))

ReadFrameCall ==
    \E hlen \in PartArgs, max_plen \in PartArgs :
        Returns(ringbuffer_read_frame(RB, DST, hlen, DST, max_plen))

Next ==
    \/ InitCall
    \/ ClearCall
    \/ WriteCall
    \/ WriteAllCall
    \/ ReadCall
    \/ PeekCall
    \/ PeekOffsetCall
    \/ FindCall
    \/ DiscardCall
    \/ WriteBlockCall
    \/ ReadBlockCall
    \/ PeekBlockCall
    \/ PeekBlockLengthCall
    \/ DiscardBlockCall
    \/ CountBlocksCall
    \/ WriteFrameCall
    \/ PeekFrameCall
    \/ ReadFrameCall

\* Every function of the library, called in any order.
Spec == Init /\ [][Next]_vars

\* The core ring alone: the byte-level functions.
NextCore ==
    \/ InitCall
    \/ ClearCall
    \/ WriteCall
    \/ WriteAllCall
    \/ ReadCall
    \/ PeekCall
    \/ PeekOffsetCall
    \/ DiscardCall

SpecCore == Init /\ [][NextCore]_vars

\* The block codec over a byte stream: bytes also arrive and leave through
\* write and discard, so that any bytes can be at the head of the ring.
NextBlock ==
    \/ InitCall
    \/ ClearCall
    \/ WriteCall
    \/ DiscardCall
    \/ WriteBlockCall
    \/ ReadBlockCall
    \/ PeekBlockCall
    \/ PeekBlockLengthCall
    \/ DiscardBlockCall
    \/ CountBlocksCall

SpecBlock == Init /\ [][NextBlock]_vars

\* The frame codec over a byte stream.
NextFrame ==
    \/ InitCall
    \/ ClearCall
    \/ WriteCall
    \/ DiscardCall
    \/ WriteFrameCall
    \/ PeekFrameCall
    \/ ReadFrameCall

SpecFrame == Init /\ [][NextFrame]_vars

\* A stream of blocks: from the empty ring, write_block and read_block
\* only.
NextStream ==
    \/ WriteBlockCall
    \/ ReadBlockCall

SpecStream == Init /\ [][NextStream]_vars

(***************************************************************************)
(* Properties                                                              *)
(***************************************************************************)

\* The live bytes of a ring, oldest first: the len bytes from ir on,
\* wrapping at size.
Content(rb) == [k \in 1 .. rb.len |-> rb.buffer[(rb.ir + k - 1) % rb.size]]

\* The first k elements of s.
Take(s, k) == SubSeq(s, 1, Min(k, Len(s)))

\* Every byte string of n bytes.
BytesOf(n) == [1 .. n -> Bytes]

\* The byte strings of n bytes the block and frame properties quantify
\* over: every string of data bytes and the slices of the test program's
\* array (every byte string when n <= 1).
ClaimBytes(n) == [1 .. n -> DataBytes] \cup {TestData(f, n) : f \in Bytes}

\* Sizes of a destination buffer of at least n bytes.
ClaimCaps(n) == {c \in SizeArgs : c >= n}

\* Byte arrays the properties quantify over in a state: every byte string
\* of at most MaxData bytes, every string of data bytes that is at most one
\* byte longer than the free space, and slices of the test program's array
\* for every length a size_t can express.
ClaimData ==
    UNION {BytesOf(n) : n \in 0 .. MaxData} \cup
    UNION {[1 .. n -> DataBytes] : n \in 0 .. (size - len + 1)} \cup
    {TestData(f, n) : f \in Bytes, n \in 0 .. (SizeMod - 1)}

\* C1: after every call of any sequence of calls (init, clear, write,
\* write_all, read, peek, peek_offset, find, discard, the block and the
\* frame operations, with any arguments), 0 <= len <= size.
C1_CapacityInvariant == 0 <= len /\ len <= size

\* C1: a ring that was filled to its capacity after its indices had moved.
C1_Witness == size = MemSize /\ len = size /\ ir > 0

\* C2: for a ring of capacity >= 1, after every call, ir and iw are in
\* [0, size) and iw = (ir + len) mod size.
C2_IndexInvariant ==
    size >= 1 =>
        /\ ir \in 0 .. (size - 1)
        /\ iw \in 0 .. (size - 1)
        /\ iw = (ir + len) % size

\* C2: a ring whose live region wraps around the end of the memory.
C2_Witness == size = MemSize /\ len > 0 /\ iw < ir /\ iw > 0

\* C3: on an empty ring, at any position of its indices, write of the n
\* bytes of data (n <= size) followed by read of n bytes returns n and
\* yields exactly data, also when the bytes cross the end of the memory;
\* the ring is empty afterwards.
C3_WriteReadRoundTrip ==
    len = 0 =>
        \A data \in ClaimData :
            Len(data) <= size =>
                LET n == Len(data)
                    w == ringbuffer_write(RB, data, n)
                    r == ringbuffer_read(w.rb, DST, n)
                IN  /\ w.ret = n
                    /\ r.ret = n
                    /\ r.out = data
                    /\ r.rb.len = 0

\* C3: an empty ring whose indices are past the start, on which a write of
\* size bytes crosses the end of the memory and is read back.
C3_Witness ==
    /\ size = MemSize /\ len = 0 /\ ir > 1
    /\ \E data \in ClaimData :
        /\ Len(data) = size
        /\ \E k \in 1 .. (size - 1) : data[k] # data[k + 1]
        /\ LET w == ringbuffer_write(RB, data, size)
           IN  /\ w.rb.len = size /\ w.rb.iw = ir
               /\ ringbuffer_read(w.rb, DST, size).out = data

\* C4: write returns min(n, space) with space = size - len before the call,
\* appends exactly the first min(n, space) bytes of data after the live
\* bytes and increases len by that count; a write that fits nothing changes
\* nothing.
C4_WriteTruncates ==
    LET c == Content(RB)
    IN  \A data \in ClaimData :
            LET n == Len(data)
                k == Min(n, size - len)
                w == ringbuffer_write(RB, data, n)
            IN  /\ w.ret = k
                /\ w.rb.len = len + k
                /\ w.rb.size = size /\ w.rb.ir = ir
                /\ Content(w.rb) = c \o Take(data, k)
                /\ (k = 0 => w.rb = RB)

\* C4: a ring holding bytes, on which a write of more bytes than fit is
\* truncated, wraps around the end of the memory and fills the ring.
C4_Witness ==
    /\ size = MemSize /\ len > 0 /\ ir > 1 /\ iw > ir
    /\ \E data \in ClaimData :
        /\ Len(data) > size - len
        /\ LET w == ringbuffer_write(RB, data, Len(data))
           IN  w.ret = size - len /\ w.rb.len = size /\ w.rb.iw = ir

\* C5: write_all is all or nothing: when n > size - len it returns a
\* failure value and leaves the ring (len, ir, iw and every byte of the
\* memory) unchanged; otherwise it returns n and appends exactly the n bytes
\* of data.
C5_WriteAllAtomic ==
    LET c == Content(RB)
    IN  \A data \in ClaimData :
            LET n == Len(data)
                w == ringbuffer_write_all(RB, data, n)
            IN  IF n > size - len
                THEN w.ret < 0 /\ w.rb = RB
                ELSE /\ w.ret = n
                     /\ w.rb.len = len + n
                     /\ w.rb.size = size /\ w.rb.ir = ir
                     /\ Content(w.rb) = c \o data

\* C5: a ring holding bytes, on which one write_all is refused and another
\* one wraps around the end of the memory.
C5_Witness ==
    /\ size = MemSize /\ len > 0 /\ ir > 1 /\ iw > ir
    /\ \E data \in ClaimData :
        /\ Len(data) = size - len + 1
        /\ ringbuffer_write_all(RB, data, Len(data)).ret = -1
    /\ \E data \in ClaimData :
        /\ Len(data) = size - len
        /\ ringbuffer_write_all(RB, data, Len(data)).rb.iw = ir

\* C6: peek and peek_offset, for any n and offset, leave the ring (len, ir,
\* iw, memory) unchanged, and the same call again returns the same count and
\* bytes: peek the first min(n, len) live bytes, peek_offset the
\* min(n, max(0, len - offset)) live bytes from offset bytes past the read
\* position.
C6_PeekPure ==
    LET c == Content(RB)
    IN  /\ \A n \in SizeT :
            LET p == ringbuffer_peek(RB, DST, n)
                k == Min(n, len)
            IN  /\ p.rb = RB
                /\ p.ret = k
                /\ p.out = Take(c, k)
                /\ ringbuffer_peek(p.rb, DST, n) = p
        /\ \A offset \in SizeT, n \in SizeT :
            LET q == ringbuffer_peek_offset(RB, offset, DST, n)
                k == Min(n, Max(0, len - offset))
            IN  /\ q.rb = RB
                /\ q.ret = k
                /\ q.out = SubSeq(c, offset + 1, offset + k)
                /\ ringbuffer_peek_offset(q.rb, offset, DST, n) = q

\* C6: a ring whose live region wraps, with a peek_offset at an offset > 0
\* that is cut short by the length and crosses the end of the memory.
C6_Witness ==
    /\ size = MemSize /\ len >= 3 /\ ir + len > size
    /\ \E offset \in 1 .. (len - 1), n \in SizeT :
        LET q == ringbuffer_peek_offset(RB, offset, DST, n)
        IN  /\ ir + offset < size
            /\ ir + offset + q.ret > size
            /\ q.ret < n
            /\ \E k \in 1 .. (q.ret - 1) : q.out[k] # q.out[k + 1]

\* C7: for any n, discard returns the same count min(n, len) as read would
\* and leaves the ring in exactly the state (len, ir, iw, memory) that read
\* leaves it in.
C7_DiscardAsRead ==
    \A n \in SizeT :
        LET d == ringbuffer_discard(RB, n)
            r == ringbuffer_read(RB, DST, n)
        IN  /\ d.ret = Min(n, len)
            /\ r.ret = Min(n, len)
            /\ d.rb = r.rb

\* C7: a ring whose live region wraps, in which a discard moves the read
\* index across the end of the memory, as the read does.
C7_Witness ==
    /\ size = MemSize /\ ir + len > size + 1
    /\ \E n \in 1 .. (len - 1) :
        LET d == ringbuffer_discard(RB, n)
        IN  /\ ir + n > size
            /\ d.rb.ir = ir + n - size
            /\ d.rb = ringbuffer_read(RB, DST, n).rb

\* C8: on an empty ring, at any position of its indices, write_block of a
\* payload with sizeof(size_t) + n <= size followed by read_block with a
\* buffer of at least n bytes copies out the payload, returns n and leaves
\* the ring empty, for every n, also when the prefix or the payload
\* straddles the end of the memory.
C8_BlockRoundTrip ==
    len = 0 =>
        \A n \in 0 .. (size - WordBytes) :
            \A payload \in ClaimBytes(n), cap \in ClaimCaps(n) :
                LET w == ringbuffer_write_block(RB, payload, n)
                    r == ringbuffer_read_block(w.rb, DST, cap)
                IN  /\ w.ret = WordBytes + n
                    /\ r.ret = n
                    /\ r.out = payload
                    /\ r.rb.len = 0

\* C8: an empty ring so close to the end of its memory that the length
\* prefix of a block straddles the end; the block is read back.
C8_Witness ==
    /\ size = MemSize /\ len = 0 /\ size - ir < WordBytes
    /\ \E payload \in BytesOf(size - WordBytes) :
        /\ size - WordBytes >= 2
        /\ payload[1] # payload[2]
        /\ LET w == ringbuffer_write_block(RB, payload, Len(payload))
           IN  /\ w.rb.len = size
               /\ ringbuffer_read_block(w.rb, DST, Len(payload)).out = payload

DeclaredLength(rb) == SizeValue(Take(Content(rb), WordBytes))

\* C10: when read_frame fails at a validation stage (fewer than
\* sizeof(size_t) bytes buffered, a declared length beyond the buffered
\* bytes, or a declared length > hlen + max_plen), it reports failure and
\* leaves len, ir and iw unchanged: no bytes are discarded.
C10_ReadFrameFailureKeepsRing ==
    \A hlen \in SizeT :
        \A max_plen \in 0 .. (SizeMod - 1 - hlen) :
            LET r == ringbuffer_read_frame(RB, DST, hlen, DST, max_plen)
                fails ==
                    \/ len < WordBytes
                    \/ DeclaredLength(RB) + WordBytes > len
                    \/ DeclaredLength(RB) > hlen + max_plen
            IN  fails =>
                    /\ r.ret < 0
                    /\ r.rb.len = len /\ r.rb.ir = ir /\ r.rb.iw = iw

(***************************************************************************)
(* Search, blocks and frames                                               *)
(***************************************************************************)

\* The logical positions o >= offset at which the byte string c holds
\* pattern.
Matches(c, offset, pattern) ==
    {o \in offset .. (Len(c) - Len(pattern)) :
        SubSeq(c, o + 1, o + Len(pattern)) = pattern}

\* The smallest of them, -1 when there is none.
FirstMatch(c, offset, pattern) ==
    LET m == Matches(c, offset, pattern)
    IN  IF m = {} THEN -1 ELSE CHOOSE o \in m : \A q \in m : o <= q

\* C11: find with 1 <= pattern_len <= len and offset <= len - pattern_len
\* returns the smallest o >= offset such that the live bytes at the logical
\* positions o .. o + pattern_len - 1 equal the pattern, and -1 when there
\* is none, for every ir and offset (also when ir + offset >= size, whatever
\* the byte past the end of the memory is) and for matches that span the
\* end of the memory.
C11_FindFirstMatch ==
    LET c == Content(RB)
    IN  \A n \in 1 .. Min(len, MaxData + 1) :
            \A pattern \in BytesOf(n), offset \in 0 .. (len - n), oob \in Bytes :
                ringbuffer_find(RB, offset, pattern, n, oob).ret
                    = FirstMatch(c, offset, pattern)

\* A complete block is at the head of the ring: a length prefix and at
\* least as many bytes behind it as the prefix declares.
CompleteBlockAtHead ==
    len >= WordBytes /\ WordBytes + DeclaredLength(RB) <= len

\* An incomplete block is at the head of the ring: a length prefix that
\* declares more bytes than are behind it.
IncompleteBlockAtHead ==
    len >= WordBytes /\ WordBytes + DeclaredLength(RB) > len

\* C12: whenever a complete block is at the head, of any declared length
\* >= 0, discard_block removes exactly sizeof(size_t) + declared length
\* bytes: len decreases by that amount and ir advances by it modulo size.
C12_DiscardBlockRemovesBlock ==
    CompleteBlockAtHead =>
        LET d == ringbuffer_discard_block(RB)
            n == WordBytes + DeclaredLength(RB)
        IN  /\ d.rb.len = len - n
            /\ d.rb.ir = (ir + n) % size

\* C13: when an incomplete block is at the head (at least sizeof(size_t)
\* bytes buffered, the declared length beyond the buffered payload),
\* peek_block returns 0 and copies nothing, and discard_block returns 0 and
\* removes nothing.
C13_IncompleteBlockUntouched ==
    IncompleteBlockAtHead =>
        /\ \A cap \in SizeT :
               LET p == ringbuffer_peek_block(RB, DST, cap)
               IN  p.ret = 0 /\ p.out = << >> /\ p.rb = RB
        /\ LET d == ringbuffer_discard_block(RB)
           IN  d.ret = 0 /\ d.rb = RB

\* C14: peek_block_length returns the same value 0 when fewer than
\* sizeof(size_t) bytes are buffered and when the declared length exceeds
\* the buffered payload; otherwise it returns the declared length; it never
\* changes the ring.
C14_PeekBlockLengthZeroOrDeclared ==
    LET r == ringbuffer_peek_block_length(RB)
    IN  /\ r.rb = RB
        /\ r.ret = IF CompleteBlockAtHead THEN DeclaredLength(RB) ELSE 0

\* C15: with a complete block of declared length L at the head and a
\* destination of out_cap < L bytes, peek_block copies exactly the first
\* out_cap payload bytes and returns out_cap without changing the ring,
\* and read_block returns 0, copies nothing and leaves the ring unchanged.
C15_ShortBufferBlock ==
    CompleteBlockAtHead =>
        LET c == Content(RB)
        IN  \A out_cap \in 0 .. (DeclaredLength(RB) - 1) :
                LET p == ringbuffer_peek_block(RB, DST, out_cap)
                    r == ringbuffer_read_block(RB, DST, out_cap)
                IN  /\ p.ret = out_cap
                    /\ p.out = SubSeq(c, WordBytes + 1, WordBytes + out_cap)
                    /\ p.rb = RB
                    /\ r.ret = 0
                    /\ r.out = << >>
                    /\ r.rb = RB

\* C15: a complete block of two different payload bytes whose payload
\* starts behind the end of the memory; peek_block with a one-byte
\* destination yields the first payload byte.
C15_Witness ==
    /\ CompleteBlockAtHead /\ DeclaredLength(RB) = 2
    /\ size = MemSize /\ ir + WordBytes >= size
    /\ LET c == Content(RB)
           p == ringbuffer_peek_block(RB, DST, 1)
       IN  /\ c[WordBytes + 1] # c[WordBytes + 2]
           /\ p.ret = 1
           /\ p.out = << c[WordBytes + 1] >>
           /\ ringbuffer_read_block(RB, DST, 1).ret = 0

\* The number of blocks the byte string c consists of when it is a
\* sequence of complete blocks (a length prefix followed by as many bytes
\* as it declares), -1 when it is not.
RECURSIVE BlockCount(_)
BlockCount(c) ==
    IF c = << >> THEN 0
    ELSE IF Len(c) < WordBytes THEN -1
    ELSE LET n == WordBytes + SizeValue(SubSeq(c, 1, WordBytes))
         IN  IF n > Len(c) THEN -1
             ELSE LET k == BlockCount(SubSeq(c, n + 1, Len(c)))
                  IN  IF k < 0 THEN -1 ELSE k + 1

\* C16: when the live bytes are exactly k complete blocks as write_block
\* writes them (k >= 0, payloads of any length >= 0), count_blocks returns
\* k and does not change the ring.
C16_CountBlocksCounts ==
    LET k == BlockCount(Content(RB))
        r == ringbuffer_count_blocks(RB)
    IN  k >= 0 => r.ret = k /\ r.rb = RB

\* Walking the byte string c block by block reaches a complete length
\* prefix that declares more bytes than remain behind it.
RECURSIVE OversizedPrefix(_)
OversizedPrefix(c) ==
    IF Len(c) < WordBytes THEN FALSE
    ELSE LET n == WordBytes + SizeValue(SubSeq(c, 1, WordBytes))
         IN  IF n > Len(c) THEN TRUE
             ELSE OversizedPrefix(SubSeq(c, n + 1, Len(c)))

\* C17: count_blocks returns 0 whenever the walk over the live bytes, block
\* by block, reaches a complete length prefix whose declared size exceeds
\* the bytes that remain behind it, however many complete blocks precede it
\* and also when that prefix is the last sizeof(size_t) live bytes.
C17_CountBlocksZeroOnOversized ==
    OversizedPrefix(Content(RB)) => ringbuffer_count_blocks(RB).ret = 0

\* C18: for every len (resp. hlen and plen) a size_t can hold: when the
\* true sum sizeof(size_t) + len (resp. sizeof(size_t) + hlen + plen)
\* exceeds the free space size - len, write_block (resp. write_frame)
\* returns -1 and leaves the ring unchanged; otherwise it appends the whole
\* encoding and returns its size.  -2 (a partial write) is never returned.
C18_EncodedWriteAllOrNothing ==
    LET c == Content(RB)
        space == size - len
    IN  /\ \A n \in SizeT :
               LET block == TestData(0, n)
                   w == ringbuffer_write_block(RB, block, n)
               IN  IF WordBytes + n > space
                   THEN w.ret = -1 /\ w.rb = RB
                   ELSE /\ w.ret = WordBytes + n
                        /\ Content(w.rb) = c \o SizeBytes(n, WordBytes) \o block
        /\ \A hlen \in SizeT, plen \in SizeT :
               LET H == TestData(0, hlen)
                   P == TestData(1, plen)
                   w == ringbuffer_write_frame(RB, H, hlen, P, plen)
               IN  IF WordBytes + hlen + plen > space
                   THEN w.ret = -1 /\ w.rb = RB
                   ELSE /\ w.ret = WordBytes + hlen + plen
                        /\ Content(w.rb) =
                               c \o SizeBytes(hlen + plen, WordBytes) \o H \o P

\* C19: whenever read_frame succeeds on a complete frame of declared
\* length D at the head, with any hlen and max_plen such that
\* D <= hlen + max_plen, it returns the payload length D - hlen and removes
\* exactly sizeof(size_t) + D bytes, which leaves the bytes behind the
\* frame at the head.
C19_ReadFrameRemovesFrame ==
    CompleteBlockAtHead =>
        LET D == DeclaredLength(RB)
            c == Content(RB)
        IN  \A hlen \in SizeT :
                \A max_plen \in 0 .. (SizeMod - 1 - hlen) :
                    LET r == ringbuffer_read_frame(RB, DST, hlen, DST, max_plen)
                    IN  D <= hlen + max_plen /\ r.ret >= 0 =>
                            /\ r.ret = D - hlen
                            /\ r.rb.len = len - (WordBytes + D)
                            /\ Content(r.rb) = SubSeq(c, WordBytes + D + 1, len)

\* A call reported an error or zero and left len, ir, iw and the memory as
\* they were.
Rejected(r) == r.ret \in {-1, 0} /\ r.rb = RB

\* Null data, header or payload is rejected by every function but
\* read_frame.
NullRejected ==
    /\ \A n \in SizeT :
        /\ Rejected(ringbuffer_write(RB, NULL, n))
        /\ Rejected(ringbuffer_write_all(RB, NULL, n))
        /\ Rejected(ringbuffer_read(RB, NULL, n))
        /\ Rejected(ringbuffer_peek(RB, NULL, n))
        /\ Rejected(ringbuffer_write_block(RB, NULL, n))
        /\ Rejected(ringbuffer_read_block(RB, NULL, n))
        /\ Rejected(ringbuffer_peek_block(RB, NULL, n))
        /\ \A offset \in SizeT :
            /\ Rejected(ringbuffer_peek_offset(RB, offset, NULL, n))
            /\ \A oob \in Bytes :
                   Rejected(ringbuffer_find(RB, offset, NULL, n, oob))
    /\ \A hlen \in SizeT, plen \in SizeT :
        /\ Rejected(ringbuffer_write_frame(RB, NULL, hlen, TestData(0, plen), plen))
        /\ Rejected(ringbuffer_write_frame(RB, TestData(0, hlen), hlen, NULL, plen))
        /\ Rejected(ringbuffer_peek_frame(RB, NULL, hlen, DST, plen))
        /\ Rejected(ringbuffer_peek_frame(RB, DST, hlen, NULL, plen))

\* C20: every function that takes a data, header or payload pointer, called
\* on a valid ring with that pointer null, returns an error or zero and
\* leaves len, ir, iw and the memory unchanged, read_frame and peek_frame
\* with a null header or payload destination included.
C20_NullArgumentRejected ==
    /\ NullRejected
    /\ \A hlen \in SizeT, max_plen \in SizeT :
        /\ Rejected(ringbuffer_read_frame(RB, NULL, hlen, DST, max_plen))
        /\ Rejected(ringbuffer_read_frame(RB, DST, hlen, NULL, max_plen))

(***************************************************************************)
(* The ring as a bounded queue of bytes                                    *)
(***************************************************************************)

\* The byte string s without its first k elements.
Drop(s, k) == SubSeq(s, Min(k, Len(s)) + 1, Len(s))

\* The bounded queue of capacity cap: write appends the prefix of data that
\* fits, write_all appends data when all of it fits, read and discard
\* remove the n oldest bytes (read yields them), peek removes nothing.
Fifo_write(q, cap, data) == q \o Take(data, cap - Len(q))
Fifo_write_all(q, cap, data) ==
    IF Len(data) > cap - Len(q) THEN q ELSE q \o data
Fifo_read(q, n) == [q |-> Drop(q, n), out |-> Take(q, n)]

\* The memory cells that hold the live bytes of the ring.
LiveCells == {(ir + k) % size : k \in 0 .. (len - 1)}

\* The call that returned r left every unread byte where it was.
KeepsUnread(r) == \A i \in LiveCells : r.rb.buffer[i] = buffer[i]

\* C21: a ring of capacity >= 1 refines the bounded queue of bytes, with
\* the live bytes (the len bytes from ir on, wrapping) as the queue: in
\* every state that init, clear, write, write_all, read, peek, peek_offset
\* and discard lead to, the live bytes are at most size, and each of these
\* calls changes them as the queue's operation does: write appends the
\* prefix that fits, write_all all or nothing, read and discard remove from
\* the head, peek and peek_offset nothing, clear and init everything; read
\* yields the oldest bytes in the order written, also those a write just
\* appended, and no write overwrites an unread byte.
C21_RefinesFifo ==
    size >= 1 =>
        LET q == Content(RB)
        IN  /\ Len(q) <= size
            /\ \A data \in ClaimData :
                LET w == ringbuffer_write(RB, data, Len(data))
                    a == ringbuffer_write_all(RB, data, Len(data))
                IN  /\ Content(w.rb) = Fifo_write(q, size, data)
                    /\ Content(a.rb) = Fifo_write_all(q, size, data)
                    /\ KeepsUnread(w) /\ KeepsUnread(a)
                    /\ w.rb.size = size /\ a.rb.size = size
                    /\ ringbuffer_read(w.rb, DST, w.rb.len).out
                           = Fifo_write(q, size, data)
            /\ \A n \in SizeT :
                LET r == ringbuffer_read(RB, DST, n)
                    d == ringbuffer_discard(RB, n)
                    p == ringbuffer_peek(RB, DST, n)
                IN  /\ r.out = Fifo_read(q, n).out
                    /\ Content(r.rb) = Fifo_read(q, n).q
                    /\ Content(d.rb) = Fifo_read(q, n).q
                    /\ p.out = Fifo_read(q, n).out
                    /\ Content(p.rb) = q
                    /\ r.rb.size = size /\ d.rb.size = size
                    /\ \A offset \in SizeT :
                           Content(ringbuffer_peek_offset(RB, offset, DST, n).rb) = q
            /\ Content(ringbuffer_clear(RB).rb) = << >>
            /\ \A memlen \in Capacities :
                   Content(ringbuffer_init(RB, buffer, memlen).rb) = << >>

\* C21: a ring whose oldest bytes were read, so that a write of two bytes
\* that differ wraps into the freed cells at the start of the memory; a
\* read of everything then yields the bytes that were unread and behind
\* them the two bytes written.
C21_Witness ==
    /\ size = MemSize /\ len >= 1 /\ ir >= 2 /\ iw = size - 1
    /\ LET q == Content(RB)
           data == TestData(2, 2)
           w == ringbuffer_write(RB, data, 2)
       IN  /\ w.ret = 2
           /\ w.rb.iw = 1
           /\ w.rb.buffer[0] = data[2]
           /\ ringbuffer_read(w.rb, DST, w.rb.len).out = q \o data

(***************************************************************************)
(* The memory cells the calls access                                       *)
(***************************************************************************)

\* The indices of the n bytes a memcpy to or from buffer + at accesses.
MemcpyCells(at, n) == {at + k : k \in 0 .. (n - 1)}

\* The indices of the memory write and write_all copy to.
ringbuffer_write_cells(rb, data, n) ==
    IF data = NULL THEN {}
    ELSE LET space == Sub(rb.size, rb.len)
             l == IF n > space THEN space ELSE n
             linlen == Sub(rb.size, rb.iw)
         IN  IF l <= linlen THEN MemcpyCells(rb.iw, l)
             ELSE MemcpyCells(rb.iw, linlen) \cup MemcpyCells(0, Sub(l, linlen))

ringbuffer_write_all_cells(rb, data, n) ==
    IF data = NULL \/ n > Sub(rb.size, rb.len) THEN {}
    ELSE LET linlen == Sub(rb.size, rb.iw)
         IN  IF n <= linlen THEN MemcpyCells(rb.iw, n)
             ELSE MemcpyCells(rb.iw, linlen) \cup MemcpyCells(0, Sub(n, linlen))

\* The indices of the memory read and peek copy from.
ringbuffer_read_cells(rb, data, n) ==
    IF data = NULL THEN {}
    ELSE LET l == IF n > rb.len THEN rb.len ELSE n
             linlen == Sub(rb.size, rb.ir)
         IN  IF l <= linlen THEN MemcpyCells(rb.ir, l)
             ELSE MemcpyCells(rb.ir, linlen) \cup MemcpyCells(0, Sub(l, linlen))

\* The indices of the memory peek_offset copies from.
ringbuffer_peek_offset_cells(rb, offset, data, n) ==
    IF data = NULL THEN {}
    ELSE LET vLen == IF offset < rb.len THEN Sub(rb.len, offset) ELSE 0
             l == IF n > vLen THEN vLen ELSE n
             vir0 == Add(rb.ir, offset)
             vir == IF vir0 >= rb.size THEN Sub(vir0, rb.size) ELSE vir0
             linlen == Sub(rb.size, vir)
         IN  IF l <= linlen THEN MemcpyCells(vir, l)
             ELSE MemcpyCells(vir, linlen) \cup MemcpyCells(0, Sub(l, linlen))

\* The indices rb->buffer[i] is read at by the inner loop of find.
RECURSIVE FindMatchCells(_, _, _, _, _, _)
FindMatchCells(rb, data, n, i, j, oob) ==
    IF j >= n THEN {}
    ELSE IF BufferAt(rb, i, oob) # data[j + 1] THEN {i}
    ELSE {i} \cup FindMatchCells(
                    rb, data, n,
                    IF Add(i, 1) >= rb.size THEN 0 ELSE Add(i, 1), j + 1, oob)

\* The indices read by the outer loop of find.
RECURSIVE FindLoopCells(_, _, _, _, _, _)
FindLoopCells(rb, data, n, offset, index, oob) ==
    IF ~(offset <= Sub(rb.len, n)) THEN {}
    ELSE FindMatchCells(rb, data, n, index, 0, oob) \cup
         IF FindMatch(rb, data, n, index, 0, oob) THEN {}
         ELSE FindLoopCells(
                rb, data, n, Add(offset, 1),
                IF Add(index, 1) >= rb.size THEN 0 ELSE Add(index, 1), oob)

ringbuffer_find_cells(rb, offset, data, n, oob) ==
    IF data = NULL THEN {}
    ELSE IF n = 0 \/ n > rb.len THEN {}
    ELSE FindLoopCells(rb, data, n, offset, Add(rb.ir, offset), oob)

\* The cells of the memory the ring owns.
OwnCells == 0 .. (size - 1)

\* write, write_all, read, peek and peek_offset access cells of the ring's
\* memory only, for all arguments.
CopyCellsInside ==
    /\ \A data \in ClaimData :
        /\ ringbuffer_write_cells(RB, data, Len(data)) \subseteq OwnCells
        /\ ringbuffer_write_all_cells(RB, data, Len(data)) \subseteq OwnCells
    /\ \A n \in SizeT :
        /\ ringbuffer_read_cells(RB, DST, n) \subseteq OwnCells
        /\ \A offset \in SizeT :
               ringbuffer_peek_offset_cells(RB, offset, DST, n) \subseteq OwnCells

\* C22: every byte of the memory that a call reads or writes is at an
\* index in 0 .. size - 1: in every reachable state and for all arguments,
\* write, write_all, read, peek, peek_offset and find access no index
\* >= size, find with ir + offset >= size included.
C22_AccessInsideMemory ==
    /\ CopyCellsInside
    /\ \A n \in 1 .. Min(len, MaxData + 1) :
           \A pattern \in BytesOf(n), offset \in SizeT, oob \in Bytes :
               ringbuffer_find_cells(RB, offset, pattern, n, oob) \subseteq OwnCells

(***************************************************************************)
(* Frames and block streams                                                *)
(***************************************************************************)

\* C23: peek_frame and read_frame copy at most max_plen bytes to the
\* payload destination, for every content of the ring and every hlen and
\* max_plen (the sizes of two buffers, so hlen + max_plen is a size_t),
\* also when the length declared at the head is smaller than hlen.
C23_PayloadWithinMaxPlen ==
    \A hlen \in SizeT :
        \A max_plen \in 0 .. (SizeMod - 1 - hlen) :
            /\ Len(ringbuffer_peek_frame(RB, DST, hlen, DST, max_plen).out.payload)
                   <= max_plen
            /\ Len(ringbuffer_read_frame(RB, DST, hlen, DST, max_plen).out.payload)
                   <= max_plen

\* The payloads of the blocks the byte string c consists of, oldest first
\* (for a c with BlockCount(c) >= 0).
RECURSIVE Blocks(_)
Blocks(c) ==
    IF c = << >> THEN << >>
    ELSE LET n == WordBytes + SizeValue(SubSeq(c, 1, WordBytes))
         IN  << SubSeq(c, WordBytes + 1, n) >> \o Blocks(SubSeq(c, n + 1, Len(c)))

\* The payloads write_block is called with in the block stream property:
\* the strings of every length that can fit a ring, and the start of the
\* test program's array for every longer length a size_t can express.
StreamData ==
    UNION {ClaimBytes(n) : n \in 0 .. (MemSize - WordBytes + 1)} \cup
    {TestData(0, n) : n \in (MemSize - WordBytes + 2) .. (SizeMod - 1)}

\* C24: from an empty ring and with write_block and read_block only, in
\* any interleaving, the live bytes are at every point a sequence of
\* complete blocks, also when a length prefix straddles the end of the
\* memory; a successful write_block appends its payload as the last block,
\* a write_block that fails for lack of space leaves the live bytes
\* unchanged, and a read_block with a buffer of at least the oldest block's
\* length yields that block's payload and removes that block, so that the
\* k-th block read is the k-th block written.
C24_BlockStreamFifo ==
    LET c == Content(RB)
    IN  /\ BlockCount(c) >= 0
        /\ \A payload \in StreamData :
            LET w == ringbuffer_write_block(RB, payload, Len(payload))
            IN  IF w.ret >= 0
                THEN /\ BlockCount(Content(w.rb)) >= 0
                     /\ Blocks(Content(w.rb)) = Append(Blocks(c), payload)
                ELSE Content(w.rb) = c
        /\ c # << >> =>
            \A cap \in ClaimCaps(Len(Head(Blocks(c)))) :
                LET r == ringbuffer_read_block(RB, DST, cap)
                IN  /\ r.out = Head(Blocks(c))
                    /\ BlockCount(Content(r.rb)) >= 0
                    /\ Blocks(Content(r.rb)) = Tail(Blocks(c))

=============================================================================
